---- MODULE Spec2Model ----
(***************************************************************************)
(* A model of src/Inference.py: the Inference class (hypothesis            *)
(* generation, the prima-facie test, the epsilon average) and its static   *)
(* time-window helpers (get_overlap, get_only_x, get_ands).                *)
(*                                                                         *)
(* The event table self.source is a sequence of rows <<case, obs, t>>.     *)
(* Quotients of counts are kept as exact fractions <<num, den>>, den > 0;  *)
(* the counts of the model are far below the size at which a Python float  *)
(* would round two different fractions to the same value.                  *)
(***************************************************************************)
EXTENDS Integers, Sequences, FiniteSets, TLC

\* ---------------------------------------------------------------- bounds
MaxRows == 5
MaxExtra == 3
MaxRuns == 2
MaxArgs == 2
MaxPoint == 2
MaxSpan == 1
MaxCoord == 3

\* The tables: up to MaxRows rows of the observations A, B, X in the cases k1
\* and k2, at the timestamps 0 and 1, followed by up to MaxExtra further cases
\* that hold one other observation, Z, each.
LabelOrder == <<"A", "B", "X">>
CaseOrder == <<"k1", "k2">>
ExtraCaseOrder == <<"k3", "k4", "k5", "k6", "k7", "k8">>
Other == "Z"
Labels == {LabelOrder[i] : i \in 1..Len(LabelOrder)}
AllLabels == Labels \cup {Other}
Cases == {CaseOrder[i] : i \in 1..Len(CaseOrder)}
AllCases == Cases \cup {ExtraCaseOrder[i] : i \in 1..Len(ExtraCaseOrder)}
Times == {0, 1}
Rows == Cases \X Labels \X Times

LabelIndex(l) == CHOOSE i \in 1..Len(LabelOrder) : LabelOrder[i] = l
CaseIndex(k) == CHOOSE i \in 1..Len(CaseOrder) : CaseOrder[i] = k

\* Tables are enumerated sorted ascending by timestamp, ties by case and label.
RowKey(row) ==
    (row[3] * (Len(CaseOrder) + 1) + CaseIndex(row[1])) * (Len(LabelOrder) + 1) + LabelIndex(row[2])

RECURSIVE SortedTables(_)
SortedTables(n) ==
    IF n = 0 THEN {<<>>}
    ELSE LET shorter == SortedTables(n - 1)
             full == {t \in shorter : Len(t) = n - 1}
             ext == {p \in full \X Rows : p[1] = <<>> \/ RowKey(p[1][Len(p[1])]) < RowKey(p[2])}
         IN shorter \cup {Append(p[1], p[2]) : p \in ext}

ExtraRows(n) == [i \in 1..n |-> <<ExtraCaseOrder[i], Other, 1>>]

Tables == {t \o ExtraRows(n) : t \in SortedTables(MaxRows), n \in 0..MaxExtra}

\* ------------------------------------------------- pandas / numpy helpers
\* Series.unique(): the distinct values in order of first appearance.
RECURSIVE Unique(_)
Unique(s) ==
    IF s = <<>> THEN <<>>
    ELSE LET front == Unique(SubSeq(s, 1, Len(s) - 1))
             last == s[Len(s)]
         IN IF \E i \in 1..Len(front) : front[i] = last THEN front ELSE Append(front, last)

Range(s) == {s[i] : i \in 1..Len(s)}

\* df[df['observation'].isin(labels)]
IsIn(table, labels) ==
    LET Keep(row) == row[2] \in labels IN SelectSeq(table, Keep)

\* df[df['observation'] == label]['case:concept:name']
CaseColumn(table, label) ==
    LET Keep(row) == row[2] = label
        rows == SelectSeq(table, Keep)
    IN [i \in 1..Len(rows) |-> rows[i][1]]

\* df[df['case:concept:name'] == case]
TraceOf(table, case) ==
    LET Keep(row) == row[1] = case IN SelectSeq(table, Keep)

\* time_values[obs_values == label]
TimesWhere(trace, label) ==
    LET Keep(row) == row[2] = label
        rows == SelectSeq(trace, Keep)
    IN [i \in 1..Len(rows) |-> rows[i][3]]

\* np.any(obs_values == label)
NpAny(trace, label) == \E i \in 1..Len(trace) : trace[i][2] = label

\* np.all(obs_values != label)
NpAll(trace, label) == \A i \in 1..Len(trace) : trace[i][2] # label

RECURSIVE NpMin(_)
NpMin(s) ==
    IF Len(s) = 1 THEN s[1]
    ELSE LET m == NpMin(Tail(s)) IN IF s[1] < m THEN s[1] ELSE m

RECURSIVE NpMax(_)
NpMax(s) ==
    IF Len(s) = 1 THEN s[1]
    ELSE LET m == NpMax(Tail(s)) IN IF s[1] > m THEN s[1] ELSE m

\* ------------------------------------------------------------------ state
\* The fields of an Inference instance; the arguments of the latest call of
\* generate_hypotheses_for_effects; the number of runs of test_for_prima_facie;
\* the latest call of get_epsilon_average with what it returned; the arguments
\* of a call of one of the static window methods and what it returned.
VARIABLES source, traces, alphabet, hypotheses, prima_facie, causes_arg, effects_arg, runs,
          epsilon_avg, window_args, window_call

vars == <<source, traces, alphabet, hypotheses, prima_facie, causes_arg, effects_arg, runs,
          epsilon_avg, window_args, window_call>>

\* no call was made yet
NoCall == [kind |-> "NoCall"]

\* populate_vars: the distinct observations in order of first appearance.
populate_alphabet(table) == Unique([i \in 1..Len(table) |-> table[i][2]])

\* populate_vars: the number of distinct cases.
populate_traces(table) == Len(Unique([i \in 1..Len(table) |-> table[i][1]]))

\* __init__ on the table that was read
NewInstance ==
    /\ traces = populate_traces(source)
    /\ alphabet = populate_alphabet(source)
    /\ hypotheses = <<>>
    /\ prima_facie = <<>>
    /\ causes_arg = <<>>
    /\ effects_arg = <<>>
    /\ runs = 0
    /\ epsilon_avg = NoCall

Init ==
    /\ source \in Tables
    /\ NewInstance
    /\ window_args = NoCall
    /\ window_call = NoCall

\* ---------------------------------------- generate_hypotheses_for_effects
\* a variant of the inner loop that keeps the self-pairs
RECURSIVE PairsWithSelf(_, _)
PairsWithSelf(cs, effect) ==
    IF cs = <<>> THEN <<>>
    ELSE <<<<Head(cs), effect>>>> \o PairsWithSelf(Tail(cs), effect)

\* [(cause, effect) for cause in causes if cause != effect]
RECURSIVE PairsForEffect(_, _)
PairsForEffect(cs, effect) ==
    IF cs = <<>> THEN <<>>
    ELSE IF Head(cs) # effect
         THEN <<<<Head(cs), effect>>>> \o PairsForEffect(Tail(cs), effect)
         ELSE PairsForEffect(Tail(cs), effect)

\* [(cause, effect) for effect in effects for cause in causes if cause != effect]
RECURSIVE HypothesesFor(_, _)
HypothesesFor(cs, es) ==
    IF es = <<>> THEN <<>>
    ELSE PairsForEffect(cs, Head(es)) \o HypothesesFor(cs, Tail(es))

generate_hypotheses_for_effects(causes, effects) ==
    /\ causes_arg' = causes
    /\ effects_arg' = effects
    /\ hypotheses' = HypothesesFor(causes, effects)
    /\ epsilon_avg' = NoCall
    /\ UNCHANGED <<source, traces, alphabet, prima_facie, runs, window_args, window_call>>

\* ------------------------------------------------- test_cause_effect_pair
CBeforeE(subset, case, cause, effect) ==
    LET trace == TraceOf(subset, case)
    IN /\ NpAny(trace, effect)
       /\ NpMin(TimesWhere(trace, cause)) <= NpMax(TimesWhere(trace, effect))

test_cause_effect_pair(cause, effect) ==
    LET subset == IsIn(source, {cause, effect})
        c_traces == Unique(CaseColumn(subset, cause))
        e_traces == Unique(CaseColumn(subset, effect))
        c_e_cases == Range(c_traces) \cap Range(e_traces)
        c_before_e == Cardinality({case \in c_e_cases : CBeforeE(subset, case, cause, effect)})
    IN <<c_before_e, Len(c_traces), Len(e_traces)>>

\* a variant of the test that accepts equality
is_prima_facie_or_equal(c_and_e, c_trues, e_trues) ==
    IF c_trues = 0 THEN FALSE
    ELSE c_and_e * traces >= e_trues * c_trues

\* c_and_e / c_trues > e_trues / self.traces, both denominators positive
is_prima_facie(c_and_e, c_trues, e_trues) ==
    IF c_trues = 0 THEN FALSE
    ELSE c_and_e * traces > e_trues * c_trues

InDict(d, key) == key \in DOMAIN d

\* the body of the loop of test_for_prima_facie for one hypothesis
TestHypothesis(pf, hypothesis) ==
    LET cause == hypothesis[1]
        effect == hypothesis[2]
        counts == test_cause_effect_pair(cause, effect)
    IN IF is_prima_facie(counts[1], counts[2], counts[3])
       THEN IF ~InDict(pf, effect)
            THEN pf @@ (effect :> <<cause>>)
            ELSE [pf EXCEPT ![effect] = Append(@, cause)]
       ELSE pf

RECURSIVE TestLoop(_, _)
TestLoop(pf, hyps) ==
    IF hyps = <<>> THEN pf
    ELSE TestLoop(TestHypothesis(pf, Head(hyps)), Tail(hyps))

test_for_prima_facie ==
    /\ runs < MaxRuns
    /\ runs' = runs + 1
    /\ prima_facie' = TestLoop(prima_facie, hypotheses)
    /\ epsilon_avg' = NoCall
    /\ UNCHANGED <<source, traces, alphabet, hypotheses, causes_arg, effects_arg, window_args, window_call>>

\* --------------------------------------- calculate_probability_differences
\* one pass of the loop over x_cases; n = <<c_and_x, c_and_x_and_e, not_c_and_x, not_c_and_x_and_e>>
CountCase(n, subset, case, effect, cause, x) ==
    LET trace == TraceOf(subset, case)
        with_c == NpAny(trace, cause) /\ NpAny(trace, x)
        c_x_e == /\ with_c
                 /\ NpAny(trace, effect)
                 /\ NpMin(TimesWhere(trace, cause)) <= NpMax(TimesWhere(trace, effect))
                 /\ NpMin(TimesWhere(trace, x)) <= NpMax(TimesWhere(trace, effect))
        without_c == NpAll(trace, cause) /\ NpAny(trace, x)
        not_c_x_e == /\ without_c
                     /\ NpAny(trace, effect)
                     /\ NpMin(TimesWhere(trace, x)) <= NpMax(TimesWhere(trace, effect))
    IN <<n[1] + (IF with_c THEN 1 ELSE 0),
         n[2] + (IF c_x_e THEN 1 ELSE 0),
         n[3] + (IF without_c THEN 1 ELSE 0),
         n[4] + (IF not_c_x_e THEN 1 ELSE 0)>>

RECURSIVE CountCases(_, _, _, _, _, _)
CountCases(n, subset, x_cases, effect, cause, x) ==
    IF x_cases = <<>> THEN n
    ELSE CountCases(CountCase(n, subset, Head(x_cases), effect, cause, x),
                    subset, Tail(x_cases), effect, cause, x)

\* a variant that leaves out the zero-count guard of not_c_and_x
ProbabilityDifferenceOneGuard(n) ==
    IF n[1] = 0 THEN <<0, 1>>
    ELSE IF n[3] = 0 THEN <<n[2], n[1]>>
    ELSE <<n[2] * n[3] - n[4] * n[1], n[1] * n[3]>>

\* the value returned, as a fraction <<num, den>>
ProbabilityDifference(n) ==
    IF n[1] = 0 \/ n[3] = 0 THEN <<0, 1>>
    ELSE <<n[2] * n[3] - n[4] * n[1], n[1] * n[3]>>

calculate_probability_differences(effect, cause, x) ==
    LET subset == IsIn(source, {cause, effect, x})
        x_cases == Unique(CaseColumn(subset, x))
    IN ProbabilityDifference(CountCases(<<0, 0, 0, 0>>, subset, x_cases, effect, cause, x))

\* ---------------------------------------------------- get_epsilon_average
FracAdd(a, b) == <<a[1] * b[2] + b[1] * a[2], a[2] * b[2]>>

RECURSIVE SumEpsilons(_, _, _, _)
SumEpsilons(eps_x, other_causes, effect, cause) ==
    IF other_causes = <<>> THEN eps_x
    ELSE SumEpsilons(FracAdd(eps_x, calculate_probability_differences(effect, cause, Head(other_causes))),
                     Tail(other_causes), effect, cause)

\* a variant that does not leave the cause out
EveryCause(causes, cause) == causes

OtherCauses(causes, cause) ==
    LET Keep(x) == x # cause IN SelectSeq(causes, Keep)

\* what a call ends with: a number num/den, None, or the KeyError of self.prima_facie[effect]
Returned(kind, num, den) == [kind |-> kind, num |-> num, den |-> den]

get_epsilon_average(effect, cause) ==
    IF ~InDict(prima_facie, effect) THEN Returned("KeyError", 0, 1)
    ELSE LET other_causes == OtherCauses(prima_facie[effect], cause)
         IN IF Len(other_causes) # 0
            THEN LET eps_x == SumEpsilons(<<0, 1>>, other_causes, effect, cause)
                 IN Returned("number", eps_x[1], eps_x[2] * Len(other_causes))
            ELSE Returned("None", 0, 1)

call_get_epsilon_average(effect, cause) ==
    /\ epsilon_avg' = [kind |-> "Call", effect |-> effect, cause |-> cause,
                       value |-> get_epsilon_average(effect, cause)]
    /\ UNCHANGED <<source, traces, alphabet, hypotheses, prima_facie, causes_arg, effects_arg, runs,
                   window_args, window_call>>

\* ------------------------------------------------- the window methods
\* a time window is <<start, end>>; None is the empty tuple
None == <<>>

get_overlap(window1, window2) ==
    LET swap == window2[1] < window1[1]
        s == IF swap THEN window2[2] ELSE window1[2]
        p == IF swap THEN window1[1] ELSE window2[1]
    IN IF s < p THEN None ELSE <<p, s>>

get_only_x(window_c, window_x) ==
    LET r == window_c[1]
        s == window_c[2]
        p == window_x[1]
        q == window_x[2]
    IN IF r < p THEN <<s, q>>
       ELSE IF p < r THEN <<p, r>>
       ELSE None

\* a variant of the filter that looks back only: t - range <= key <= t
EarlierXCandidates(x_trues, t, range) ==
    LET Keep(item) == item[1] >= t - range /\ item[1] <= t
    IN SelectSeq(x_trues, Keep)

\* a dict of timepoints is the sequence of its items <<timepoint, cases>>
\* [key for key in x_trues if key >= t - range and key <= t + range]
XCandidates(x_trues, t, range) ==
    LET Keep(item) == item[1] >= t - range /\ item[1] <= t + range
    IN SelectSeq(x_trues, Keep)

\* the body of the loop over x_candidates
AndOfCandidate(and_list, c_item, cand, r, s) ==
    LET Shared(c) == c \in Range(cand[2])
        intersection == SelectSeq(c_item[2], Shared)
        window1 == <<c_item[1] + r, c_item[1] + s>>
        window2 == <<cand[1] + r, cand[1] + s>>
        overlap == get_overlap(window1, window2)
    IN IF overlap # None /\ Len(intersection) # 0
       THEN Append(and_list, <<overlap, intersection>>)
       ELSE and_list

RECURSIVE AndsOfCandidates(_, _, _, _, _)
AndsOfCandidates(and_list, c_item, x_candidates, r, s) ==
    IF x_candidates = <<>> THEN and_list
    ELSE AndsOfCandidates(AndOfCandidate(and_list, c_item, Head(x_candidates), r, s),
                          c_item, Tail(x_candidates), r, s)

RECURSIVE AndsOfTimepoints(_, _, _, _, _)
AndsOfTimepoints(and_list, c_trues, x_trues, r, s) ==
    IF c_trues = <<>> THEN and_list
    ELSE AndsOfTimepoints(
            AndsOfCandidates(and_list, Head(c_trues),
                             XCandidates(x_trues, Head(c_trues)[1], s - r), r, s),
            Tail(c_trues), x_trues, r, s)

get_ands(c_trues, x_trues, window) ==
    AndsOfTimepoints(<<>>, c_trues, x_trues, window[1], window[2])

\* the arguments: closed windows, dicts of timepoints, window offsets (r, s)
Windows == {w \in (0..MaxCoord) \X (0..MaxCoord) : w[1] <= w[2]}
Offsets == {w \in (-MaxSpan..MaxSpan) \X (-MaxSpan..MaxSpan) : w[1] <= w[2]}
CaseLists == {<<"k1">>, <<"k2">>, <<"k1", "k2">>}

\* the dicts whose timepoints are 0..n, in ascending order of timepoint
RECURSIVE TimepointDicts(_)
TimepointDicts(n) ==
    IF n < 0 THEN {<<>>}
    ELSE LET shorter == TimepointDicts(n - 1)
         IN shorter \cup {Append(d, <<n, cases>>) : d \in shorter, cases \in CaseLists}

WindowArgs ==
    {[fn |-> "get_overlap", window1 |-> w1, window2 |-> w2] : w1 \in Windows, w2 \in Windows}
    \cup {[fn |-> "get_only_x", window1 |-> w1, window2 |-> w2] : w1 \in Windows, w2 \in Windows}

AndsArgs ==
    {[fn |-> "get_ands", c_trues |-> c, x_trues |-> x, window |-> w] :
        c \in TimepointDicts(MaxPoint), x \in TimepointDicts(MaxPoint), w \in Offsets}

call_get_overlap ==
    /\ window_call.kind = "NoCall"
    /\ window_args.fn = "get_overlap"
    /\ window_call' = [kind |-> "Call", value |-> get_overlap(window_args.window1, window_args.window2)]
    /\ UNCHANGED <<source, traces, alphabet, hypotheses, prima_facie, causes_arg, effects_arg, runs,
                   epsilon_avg, window_args>>

call_get_only_x ==
    /\ window_call.kind = "NoCall"
    /\ window_args.fn = "get_only_x"
    /\ window_call' = [kind |-> "Call", value |-> get_only_x(window_args.window1, window_args.window2)]
    /\ UNCHANGED <<source, traces, alphabet, hypotheses, prima_facie, causes_arg, effects_arg, runs,
                   epsilon_avg, window_args>>

call_get_ands ==
    /\ window_call.kind = "NoCall"
    /\ window_args.fn = "get_ands"
    /\ window_call' = [kind |-> "Call", value |-> get_ands(window_args.c_trues, window_args.x_trues, window_args.window)]
    /\ UNCHANGED <<source, traces, alphabet, hypotheses, prima_facie, causes_arg, effects_arg, runs,
                   epsilon_avg, window_args>>

\* ------------------------------------------------------- specifications
\* argument lists of generate_hypotheses_for_effects
RECURSIVE LabelLists(_)
LabelLists(n) ==
    IF n = 0 THEN {<<>>}
    ELSE LET shorter == LabelLists(n - 1)
         IN shorter \cup {Append(p[1], p[2]) : p \in {t \in shorter : Len(t) = n - 1} \X Labels}

\* The pipeline on one table: the causes are the labels of the table, once or
\* with every label repeated; the effects are the same labels or the one label B.
Next ==
    \/ \E cs \in {alphabet, alphabet \o alphabet}, es \in {alphabet, <<"B">>} :
            generate_hypotheses_for_effects(cs, es)
    \/ test_for_prima_facie

Spec == Init /\ [][Next]_vars

\* The pipeline followed by calls of get_epsilon_average for a cause and an
\* effect among A, B, X.
NextEps ==
    \/ generate_hypotheses_for_effects(alphabet, alphabet)
    \/ test_for_prima_facie
    \/ \E effect \in Labels : \E cause \in Labels \ {effect} :
            call_get_epsilon_average(effect, cause)

SpecEps == Init /\ [][NextEps]_vars

\* generate_hypotheses_for_effects alone, over every pair of argument lists;
\* it reads nothing of the table.
InitGen ==
    /\ source = <<>>
    /\ NewInstance
    /\ window_args = NoCall
    /\ window_call = NoCall

NextGen ==
    \E cs \in LabelLists(MaxArgs), es \in LabelLists(MaxArgs) :
        generate_hypotheses_for_effects(cs, es)

SpecGen == InitGen /\ [][NextGen]_vars

\* The static window methods, each applied once to arguments drawn at the start.
InitWin ==
    /\ source = <<>>
    /\ NewInstance
    /\ window_args \in WindowArgs \cup AndsArgs
    /\ window_call = NoCall

NextWin ==
    \/ call_get_overlap
    \/ call_get_only_x
    \/ call_get_ands

SpecWin == InitWin /\ [][NextWin]_vars

\* ------------------------------------------------- the table, read as sets
CasesOfTable == {source[i][1] : i \in 1..Len(source)}
CasesWith(l) == {source[i][1] : i \in {j \in 1..Len(source) : source[j][2] = l}}
TimesIn(k, l) == {source[i][3] : i \in {j \in 1..Len(source) : source[j][1] = k /\ source[j][2] = l}}
Earliest(k, l) == CHOOSE t \in TimesIn(k, l) : \A u \in TimesIn(k, l) : t <= u
Latest(k, l) == CHOOSE t \in TimesIn(k, l) : \A u \in TimesIn(k, l) : u <= t
\* a occurs in case k and e occurs in it no earlier than the first a
ByTheLatest(k, a, e) ==
    /\ k \in CasesWith(a) \cap CasesWith(e)
    /\ Earliest(k, a) <= Latest(k, e)
Member(pf, e, c) == e \in DOMAIN pf /\ \E i \in 1..Len(pf[e]) : pf[e][i] = c
Hypothesis(c, e) == \E i \in 1..Len(hypotheses) : hypotheses[i] = <<c, e>>

\* positive relevance: c_trues > 0 and c_and_e / c_trues > e_trues / total_traces
PositivelyRelevant(c, e) ==
    LET c_trues == Cardinality(CasesWith(c))
        e_trues == Cardinality(CasesWith(e))
        c_and_e == Cardinality({k \in CasesOfTable : ByTheLatest(k, c, e)})
    IN /\ c_trues > 0
       /\ c_and_e * Cardinality(CasesOfTable) > e_trues * c_trues

\* C1: a run of test_for_prima_facie leaves c in prima_facie[e] exactly when
\* (c, e) is one of the hypotheses it ran over, c occurs in some case and
\* c_and_e / c_trues > e_trues / total_traces, or when an earlier run had
\* already put it there; on the empty map of a new instance that is: c is in
\* prima_facie[e] iff (c, e) is a hypothesis that passes the test.
PrimaFacieIffRelevant ==
    [][runs' = runs + 1 =>
        \A e \in AllLabels, c \in AllLabels :
            Member(prima_facie', e, c) <=>
                \/ Member(prima_facie, e, c)
                \/ Hypothesis(c, e) /\ PositivelyRelevant(c, e)]_vars

\* C1 witness: after a first run one hypothesis was accepted, another rejected,
\* and an accepted cause occurs twice in its case.
PrimaFacieWitness ==
    /\ runs = 1
    /\ \E e \in Labels, c \in Labels :
        /\ Member(prima_facie, e, c)
        /\ \E k \in Cases : ByTheLatest(k, c, e) /\ Cardinality(TimesIn(k, c)) = 2
    /\ \E e \in Labels, c \in Labels : Hypothesis(c, e) /\ ~Member(prima_facie, e, c)
    /\ \E e \in Labels, c \in Labels : ~Hypothesis(c, e) /\ PositivelyRelevant(c, e)

\* C2: every cause appears at most once in prima_facie[effect].
NoCauseRecordedTwice ==
    \A e \in DOMAIN prima_facie :
        \A i \in 1..Len(prima_facie[e]), j \in 1..Len(prima_facie[e]) :
            i # j => prima_facie[e][i] # prima_facie[e][j]

\* ------------------------------------------------------ the epsilon score
\* Delta(effect, cause, x) as a fraction, from the cases that contain x
Delta(effect, cause, x) ==
    LET x_cases == CasesWith(x)
        with_c == x_cases \cap CasesWith(cause)
        without_c == x_cases \ CasesWith(cause)
        c_and_x == Cardinality(with_c)
        c_and_x_and_e ==
            Cardinality({k \in with_c : ByTheLatest(k, cause, effect) /\ ByTheLatest(k, x, effect)})
        not_c_and_x == Cardinality(without_c)
        not_c_and_x_and_e == Cardinality({k \in without_c : ByTheLatest(k, x, effect)})
    IN IF c_and_x = 0 \/ not_c_and_x = 0 THEN <<0, 1>>
       ELSE <<c_and_x_and_e * not_c_and_x - not_c_and_x_and_e * c_and_x, c_and_x * not_c_and_x>>

\* the entries of prima_facie[effect] other than cause, by position
OtherPositions(effect, cause) ==
    {i \in 1..Len(prima_facie[effect]) : prima_facie[effect][i] # cause}

\* the sum, as a fraction, of Delta(effect, cause, x) over a set of positions of prima_facie[effect]
RECURSIVE DeltaSum(_, _, _)
DeltaSum(effect, cause, positions) ==
    IF positions = {} THEN <<0, 1>>
    ELSE LET i == CHOOSE j \in positions : TRUE
             d == Delta(effect, cause, prima_facie[effect][i])
             rest == DeltaSum(effect, cause, positions \ {i})
         IN <<d[1] * rest[2] + rest[1] * d[2], d[2] * rest[2]>>

\* the fraction value.num / value.den is total / count
IsMean(value, total, count) ==
    /\ value.den > 0
    /\ value.num * total[2] * count = total[1] * value.den

Called == epsilon_avg.kind = "Call"

UndefinedIffNoOtherCause ==
    (Called /\ InDict(prima_facie, epsilon_avg.effect)) =>
        LET others == OtherPositions(epsilon_avg.effect, epsilon_avg.cause)
        IN /\ epsilon_avg.value.kind = "None" <=> others = {}
           /\ epsilon_avg.value.kind = "number" <=> others # {}
           /\ (others # {} /\ \A i \in others :
                 Delta(epsilon_avg.effect, epsilon_avg.cause,
                       prima_facie[epsilon_avg.effect][i])[1] = 0)
                => (epsilon_avg.value.kind = "number" /\ epsilon_avg.value.num = 0)

\* C4 witness: the one prima-facie cause of an effect, recorded twice by two
\* runs, is scored: its score is undefined.
UndefinedWitness ==
    /\ Called
    /\ Member(prima_facie, epsilon_avg.effect, epsilon_avg.cause)
    /\ Len(prima_facie[epsilon_avg.effect]) = 2
    /\ OtherPositions(epsilon_avg.effect, epsilon_avg.cause) = {}

\* C5: get_epsilon_average(effect, cause) raises whenever cause is not in
\* prima_facie[effect], and returns a value for every cause that is.
RaisesIffNotPrimaFacie ==
    Called =>
        (epsilon_avg.value.kind = "KeyError"
            <=> ~Member(prima_facie, epsilon_avg.effect, epsilon_avg.cause))

\* ------------------------------------------------- the list of hypotheses
\* the (effect position, cause position) combinations that are not self-pairs
Combinations ==
    {p \in (1..Len(effects_arg)) \X (1..Len(causes_arg)) : causes_arg[p[2]] # effects_arg[p[1]]}

\* how many combinations come before p, effects outer and causes inner
Before(p) ==
    Cardinality({q \in Combinations : q[1] < p[1] \/ (q[1] = p[1] /\ q[2] < p[2])})

\* C9: after generate_hypotheses_for_effects(causes, effects), whatever the
\* list held before, the hypotheses are the pairs (cause, effect) with
\* cause # effect, one per combination, effects outer and causes inner: m*n
\* pairs for disjoint inputs, fewer when they share a label, none when one
\* input is empty.
GenerateSetsAllPairs ==
    /\ Len(hypotheses) = Cardinality(Combinations)
    /\ \A p \in Combinations : hypotheses[Before(p) + 1] = <<causes_arg[p[2]], effects_arg[p[1]]>>
    /\ \A i \in 1..Len(hypotheses) : hypotheses[i][1] # hypotheses[i][2]
    /\ (Range(causes_arg) \cap Range(effects_arg) = {}) => Len(hypotheses) = Len(causes_arg) * Len(effects_arg)
    /\ (Range(causes_arg) \cap Range(effects_arg) # {}) => Len(hypotheses) < Len(causes_arg) * Len(effects_arg)
    /\ (causes_arg = <<>> \/ effects_arg = <<>>) => hypotheses = <<>>

\* C9 witness: a list over two effects from which a self-pair was left out.
GenerateWitness ==
    /\ Len(causes_arg) = 2
    /\ Len(effects_arg) = 2
    /\ Len(hypotheses) = 3
    /\ hypotheses[1][2] # hypotheses[3][2]
    /\ hypotheses[1][1] = hypotheses[3][2]

\* ------------------------------------------------------- the time windows
Max(a, b) == IF a >= b THEN a ELSE b
Min(a, b) == IF a <= b THEN a ELSE b
Points(w) == {t \in (-MaxSpan)..(MaxCoord + MaxPoint + MaxSpan) : w[1] <= t /\ t <= w[2]}
OverlapReturned == window_call.kind = "Call" /\ window_args.fn = "get_overlap"
OnlyXReturned == window_call.kind = "Call" /\ window_args.fn = "get_only_x"
AndsReturned == window_call.kind = "Call" /\ window_args.fn = "get_ands"

\* C6: get_overlap returns the intersection (max(r, p), min(s, q)) of two
\* closed windows that share a point, and None exactly when one ends strictly
\* before the other begins.
OverlapIsIntersection ==
    OverlapReturned =>
        LET w1 == window_args.window1
            w2 == window_args.window2
        IN IF w1[2] < w2[1] \/ w2[2] < w1[1]
           THEN window_call.value = None
           ELSE window_call.value = <<Max(w1[1], w2[1]), Min(w1[2], w2[2])>>

\* C7: get_overlap(w1, w2) = get_overlap(w2, w1).
OverlapIsSymmetric ==
    OverlapReturned =>
        window_call.value = get_overlap(window_args.window2, window_args.window1)

\* C8: get_only_x returns None iff the windows start at the same point, and
\* otherwise a well-formed window inside window_x that shares at most an
\* endpoint with window_c.
OnlyXIsOutsideC ==
    OnlyXReturned =>
        LET c == window_args.window1
            x == window_args.window2
            v == window_call.value
        IN /\ v = None <=> c[1] = x[1]
           /\ v # None =>
                /\ v[1] <= v[2]
                /\ x[1] <= v[1] /\ v[2] <= x[2]
                /\ \A t \in Points(v) \cap Points(c) : t = v[1] \/ t = v[2]

\* the pairs of positions (i in c_trues, j in x_trues) whose windows overlap
\* and whose case lists share a case
SharedCases(i, j) ==
    Range(window_args.c_trues[i][2]) \cap Range(window_args.x_trues[j][2])
OverlappingPairs ==
    LET r == window_args.window[1]
        s == window_args.window[2]
    IN {p \in (1..Len(window_args.c_trues)) \X (1..Len(window_args.x_trues)) :
            /\ \E t \in Points(<<window_args.c_trues[p[1]][1] + r, window_args.c_trues[p[1]][1] + s>>) :
                 t \in Points(<<window_args.x_trues[p[2]][1] + r, window_args.x_trues[p[2]][1] + s>>)
            /\ SharedCases(p[1], p[2]) # {}}
\* the entry the pair p stands for: the intersection window and the shared cases
EntryOf(p) ==
    LET t == window_args.c_trues[p[1]][1]
        u == window_args.x_trues[p[2]][1]
    IN <<<<Max(t, u) + window_args.window[1], Min(t, u) + window_args.window[2]>>,
         SharedCases(p[1], p[2])>>
\* an entry of the returned list, its case list read as a set
ReturnedEntry(k) == <<window_call.value[k][1], Range(window_call.value[k][2])>>

\* C10: get_ands returns one entry for each pair of timepoints (t of c_trues,
\* u of x_trues) whose windows [t+r, t+s] and [u+r, u+s] overlap and whose
\* cases share a case, and no other entry; the entry holds the intersection
\* (max(t,u)+r, min(t,u)+s) and the shared cases.
AndsAreTheOverlappingPairs ==
    AndsReturned =>
        /\ Len(window_call.value) = Cardinality(OverlappingPairs)
        /\ \A p \in OverlappingPairs :
            Cardinality({k \in 1..Len(window_call.value) : ReturnedEntry(k) = EntryOf(p)})
                = Cardinality({q \in OverlappingPairs : EntryOf(q) = EntryOf(p)})
        /\ \A k \in 1..Len(window_call.value) :
            \E p \in OverlappingPairs : ReturnedEntry(k) = EntryOf(p)

\* C10 witness: a call that returned the overlap of the windows at two
\* different timepoints t < u, left out a pair of timepoints whose cases
\* share no case, and left out a pair with a shared case whose windows do not
\* overlap.
AndsWitness ==
    /\ AndsReturned
    /\ \E k \in 1..Len(window_call.value) : \E p \in OverlappingPairs :
        /\ ReturnedEntry(k) = EntryOf(p)
        /\ window_args.c_trues[p[1]][1] < window_args.x_trues[p[2]][1]
    /\ \E i \in 1..Len(window_args.c_trues), j \in 1..Len(window_args.x_trues) :
        SharedCases(i, j) = {}
    /\ \E i \in 1..Len(window_args.c_trues), j \in 1..Len(window_args.x_trues) :
        /\ SharedCases(i, j) # {}
        /\ <<i, j>> \notin OverlappingPairs

====
